---------------------------- MODULE Spec2Model ----------------------------
(***************************************************************************)
(* Model of src/rpc/parsers.ts: the response parsers of the RPC client.    *)
(*                                                                         *)
(* A JavaScript object is a function from field names to values; a field   *)
(* that is absent is not in the DOMAIN.  A call either returns a value or  *)
(* throws: Ok(v) / Throw(e).  The caller holds one raw response object     *)
(* (raw) and calls the matching parser on it; every call is logged with    *)
(* the argument as it was before the call and as it is after it.           *)
(***************************************************************************)
EXTENDS Integers, Sequences, FiniteSets, TLC

VARIABLES kind, raw, calls

vars == <<kind, raw, calls>>

\* Longest list a raw response carries (events, entries, results, ...).
MaxLen == 2

\* Number of parser calls the caller makes on one response.
MaxCalls == 2

---------------------------------------------------------------------------
\* JavaScript object and control-flow primitives

Has(o, f) == f \in DOMAIN o

\* delete o.f
Delete(o, f) == [k \in DOMAIN o \ {f} |-> o[k]]

\* { ...a, ...b }
Spread(a, b) == b @@ a

\* {}: also what `...(false)`, `...(0)` and `...(undefined)` contribute
EmptyObj == <<>>

Null == [null |-> TRUE]

Undefined == [undefined |-> TRUE]

Ok(v) == [ok |-> TRUE, val |-> v]

Throw(e) == [ok |-> FALSE, err |-> e]

\* Sequences over S of length at most n
SeqUpTo(S, n) == UNION {[1..k -> S] : k \in 0..n}

\* An optional field: absent, or present with one of the values
Opt(f, S) == {EmptyObj} \cup {f :> v : v \in S}

---------------------------------------------------------------------------
\* The codec library (@stellar/stellar-base): base64 XDR text <-> values

XdrVoid == "AAAAAQ=="

XdrOther == "AAAAAA=="

XdrBad == "!!"

ValidXdr == {XdrVoid, XdrOther, "META0", "META3", "META3S", "META4S"}

DecodeFailure(s) == [name |-> "DecodeFailure", input |-> s]

\* xdr.<T>.fromXDR(s, 'base64') on a payload the codec accepts
Decoded(T, s) == [xdrType |-> T, of |-> s]

\* xdr.<T>.fromXDR(s, 'base64')
fromXDR(T, s) == IF s \in ValidXdr THEN Ok(Decoded(T, s)) ELSE Throw(DecodeFailure(s))

\* list.map(x => xdr.<T>.fromXDR(x, 'base64')): the first failure propagates
mapFromXDR(T, list) ==
    LET bad == {i \in DOMAIN list : ~fromXDR(T, list[i]).ok}
        first == CHOOSE i \in bad : \A j \in bad : i <= j
    IN IF bad = {} THEN Ok([i \in DOMAIN list |-> fromXDR(T, list[i]).val])
       ELSE fromXDR(T, list[first])

---------------------------------------------------------------------------
\* parseRawSendTransaction

\* r after `delete r.errorResultXdr; delete r.diagnosticEventsXdr`
sendAfterDelete(r) == Delete(Delete(r, "errorResultXdr"), "diagnosticEventsXdr")

\* Mutant: without the `length > 0` test
sendDiagnosticEvents_NoLengthCheck(r0) ==
    IF Has(r0, "diagnosticEventsXdr")
    THEN LET evts == mapFromXDR("DiagnosticEvent", r0.diagnosticEventsXdr)
         IN IF evts.ok THEN Ok("diagnosticEvents" :> evts.val) ELSE evts
    ELSE Ok(EmptyObj)

\* The spread of `diagnosticEventsXdr !== undefined && length > 0 && {...}`
sendDiagnosticEvents(r0) ==
    IF Has(r0, "diagnosticEventsXdr") /\ Len(r0.diagnosticEventsXdr) > 0
    THEN LET evts == mapFromXDR("DiagnosticEvent", r0.diagnosticEventsXdr)
         IN IF evts.ok THEN Ok("diagnosticEvents" :> evts.val) ELSE evts
    ELSE Ok(EmptyObj)

\* Mutant: tests that the field is there, not that it is truthy
sendHasErrorResult_PresentOnly(r0) == Has(r0, "errorResultXdr")

\* `if (errorResultXdr)`: present and not the empty string
sendHasErrorResult(r0) == Has(r0, "errorResultXdr") /\ r0.errorResultXdr # ""

\* The value returned (or thrown) for the argument as it was at the call, r0
parseRawSendTransaction(r0) ==
    LET r == sendAfterDelete(r0)
    IN IF sendHasErrorResult(r0)
       THEN LET diag == sendDiagnosticEvents(r0)
                err == fromXDR("TransactionResult", r0.errorResultXdr)
            IN IF ~diag.ok THEN diag
               ELSE IF ~err.ok THEN err
               ELSE Ok(Spread(Spread(r, diag.val), "errorResult" :> err.val))
       ELSE Ok(r)

RawSendTransactionResponses ==
    {[status |-> s, hash |-> "h1", latestLedger |-> 100] @@ e @@ d :
        s \in {"PENDING", "ERROR"},
        e \in Opt("errorResultXdr", {"", XdrVoid, XdrBad}),
        d \in Opt("diagnosticEventsXdr", SeqUpTo({XdrVoid, XdrOther, XdrBad}, MaxLen))}

---------------------------------------------------------------------------
\* parseTransactionInfo, parseRawTransactions

\* meta.switch()
metaSwitch(meta) ==
    CASE meta.of = "META0" -> 0
      [] meta.of \in {"META3", "META3S"} -> 3
      [] meta.of = "META4S" -> 4
      [] OTHER -> 1

\* meta.v3().sorobanMeta(): the invocation-metadata sub-record, or null
v3SorobanMeta(meta) ==
    IF meta.of = "META3S" THEN [returnValue |-> Decoded("ScVal", XdrOther)] ELSE Null

\* xdr.<T>.fromXDR(raw.f!, 'base64'): an absent field is undefined, not a payload
fromXDRField(T, o, f) ==
    IF Has(o, f) THEN fromXDR(T, o[f]) ELSE Throw([name |-> "TypeError", field |-> f])

\* sorobanMeta?.returnValue()
optReturnValue(sorobanMeta) ==
    IF sorobanMeta = Null THEN Undefined ELSE sorobanMeta.returnValue

\* Mutant: without the test for a null invocation-metadata sub-record
infoReturnValue_SwitchOnly(meta) ==
    IF metaSwitch(meta) = 3
    THEN "returnValue" :> optReturnValue(v3SorobanMeta(meta))
    ELSE EmptyObj

\* `if (meta.switch() === 3 && meta.v3().sorobanMeta() !== null) info.returnValue = ...`
infoReturnValue(meta) ==
    IF metaSwitch(meta) = 3 /\ v3SorobanMeta(meta) # Null
    THEN "returnValue" :> optReturnValue(v3SorobanMeta(meta))
    ELSE EmptyObj

\* `if ('diagnosticEventsXdr' in raw && raw.diagnosticEventsXdr) info.diagnosticEventsXdr = ...`
infoDiagnosticEvents(r) ==
    IF Has(r, "diagnosticEventsXdr")
    THEN LET evts == mapFromXDR("DiagnosticEvent", r.diagnosticEventsXdr)
         IN IF evts.ok THEN Ok("diagnosticEventsXdr" :> evts.val) ELSE evts
    ELSE Ok(EmptyObj)

parseTransactionInfo(r) ==
    LET meta == fromXDRField("TransactionMeta", r, "resultMetaXdr")
        env == fromXDRField("TransactionEnvelope", r, "envelopeXdr")
        res == fromXDRField("TransactionResult", r, "resultXdr")
        diag == infoDiagnosticEvents(r)
    IN IF ~meta.ok THEN meta
       ELSE IF ~env.ok THEN env
       ELSE IF ~res.ok THEN res
       ELSE IF ~diag.ok THEN diag
       ELSE Ok(Spread(Spread([ledger |-> r.ledger,
                              createdAt |-> r.createdAt,
                              applicationOrder |-> r.applicationOrder,
                              feeBump |-> r.feeBump,
                              envelopeXdr |-> env.val,
                              resultXdr |-> res.val,
                              resultMetaXdr |-> meta.val],
                             infoReturnValue(meta.val)),
                      diag.val))

parseRawTransactions(r) ==
    LET info == parseTransactionInfo(r)
    IN IF info.ok THEN Ok(Spread("status" :> r.status, info.val)) ELSE info

RawTransactionInfos ==
    {[status |-> s, ledger |-> 100, createdAt |-> 1700, applicationOrder |-> 1,
      feeBump |-> FALSE, envelopeXdr |-> e, resultXdr |-> x] @@ m @@ d :
        s \in {"SUCCESS", "FAILED"},
        e \in {XdrVoid, XdrBad},
        x \in {XdrOther, XdrBad},
        m \in Opt("resultMetaXdr", {"META0", "META3", "META3S", "META4S", XdrBad}),
        d \in Opt("diagnosticEventsXdr", SeqUpTo({XdrVoid, XdrOther, XdrBad}, MaxLen))}

---------------------------------------------------------------------------
\* list.map(f) where f may throw: the first failure propagates

\* results[i] is what the callback did for the i-th element
MapOrThrow(results) ==
    LET bad == {i \in DOMAIN results : ~results[i].ok}
        first == CHOOSE i \in bad : \A j \in bad : i <= j
    IN IF bad = {} THEN Ok([i \in DOMAIN results |-> results[i].val])
       ELSE results[first]

\* o.f ?? []
OrEmptyList(o, f) == IF Has(o, f) THEN o[f] ELSE <<>>

---------------------------------------------------------------------------
\* parseRawEvents

ValidContractIds == {"CA3D"}

\* new Contract(id): rejects a string that is no contract address
Contract(id) ==
    IF id \in ValidContractIds THEN Ok([contract |-> id])
    ELSE Throw([name |-> "InvalidContractId", input |-> id])

\* Mutant: wraps the contract id without testing it for ""
eventContractId_Always(evt) ==
    LET c == Contract(evt.contractId)
    IN IF c.ok THEN Ok("contractId" :> c.val) ELSE c

\* The spread of `evt.contractId !== '' && { contractId: new Contract(evt.contractId) }`
eventContractId(evt) ==
    IF evt.contractId # ""
    THEN LET c == Contract(evt.contractId)
         IN IF c.ok THEN Ok("contractId" :> c.val) ELSE c
    ELSE Ok(EmptyObj)

\* The callback of r.events.map
parseRawEvent(evt) ==
    LET clone == Delete(evt, "contractId")
        cid == eventContractId(evt)
        topic == mapFromXDR("ScVal", evt.topic)
        value == fromXDR("ScVal", evt.value)
    IN IF ~cid.ok THEN cid
       ELSE IF ~topic.ok THEN topic
       ELSE IF ~value.ok THEN value
       ELSE Ok(Spread(Spread(clone, cid.val), [topic |-> topic.val, value |-> value.val]))

parseRawEvents(r) ==
    LET events == MapOrThrow([i \in DOMAIN OrEmptyList(r, "events") |->
                                parseRawEvent(OrEmptyList(r, "events")[i])])
    IN IF events.ok THEN Ok([latestLedger |-> r.latestLedger, events |-> events.val])
       ELSE events

RawEvent(c, t, v) ==
    [type |-> "contract", ledger |-> 12, contractId |-> c, topic |-> t, value |-> v]

\* Every event with a topic list of up to MaxLen entries
AllRawEvents ==
    {RawEvent(c, t, v) : c \in {"", "CA3D", "bad!"},
                         t \in SeqUpTo({XdrVoid, XdrOther, XdrBad}, MaxLen),
                         v \in {XdrVoid, XdrBad}}

\* The events that lists of several events are built from
SomeRawEvents ==
    {RawEvent("", <<XdrVoid, XdrOther>>, XdrVoid),
     RawEvent("CA3D", <<XdrOther>>, XdrOther),
     RawEvent("CA3D", <<>>, XdrBad),
     RawEvent("bad!", <<XdrVoid>>, XdrVoid)}

RawGetEventsResponses ==
    {[latestLedger |-> 100] @@ e :
        e \in Opt("events", SeqUpTo(SomeRawEvents, MaxLen)
                            \cup {<<evt>> : evt \in AllRawEvents})}

---------------------------------------------------------------------------
\* parseRawLedgerEntries

\* Mutant: rejects only absent fields (`=== undefined`), not empty strings
parseRawLedgerEntry_AbsentOnly(rawEntry) ==
    IF ~Has(rawEntry, "key") \/ ~Has(rawEntry, "xdr")
    THEN Throw([name |-> "TypeError", entry |-> rawEntry])
    ELSE LET key == fromXDR("LedgerKey", rawEntry.key)
             val == fromXDR("LedgerEntryData", rawEntry.xdr)
         IN IF ~key.ok THEN key
            ELSE IF ~val.ok THEN val
            ELSE Ok(Spread([lastModifiedLedgerSeq |-> rawEntry.lastModifiedLedgerSeq,
                            key |-> key.val,
                            val |-> val.val],
                           IF Has(rawEntry, "liveUntilLedgerSeq")
                           THEN "liveUntilLedgerSeq" :> rawEntry.liveUntilLedgerSeq
                           ELSE EmptyObj))

\* The callback of raw.entries.map
parseRawLedgerEntry(rawEntry) ==
    IF ~(Has(rawEntry, "key") /\ rawEntry.key # "")
       \/ ~(Has(rawEntry, "xdr") /\ rawEntry.xdr # "")
    THEN Throw([name |-> "TypeError", entry |-> rawEntry])
    ELSE LET key == fromXDR("LedgerKey", rawEntry.key)
             val == fromXDR("LedgerEntryData", rawEntry.xdr)
         IN IF ~key.ok THEN key
            ELSE IF ~val.ok THEN val
            ELSE Ok(Spread([lastModifiedLedgerSeq |-> rawEntry.lastModifiedLedgerSeq,
                            key |-> key.val,
                            val |-> val.val],
                           IF Has(rawEntry, "liveUntilLedgerSeq")
                           THEN "liveUntilLedgerSeq" :> rawEntry.liveUntilLedgerSeq
                           ELSE EmptyObj))

parseRawLedgerEntries(r) ==
    LET entries == MapOrThrow([i \in DOMAIN OrEmptyList(r, "entries") |->
                                 parseRawLedgerEntry(OrEmptyList(r, "entries")[i])])
    IN IF entries.ok THEN Ok([latestLedger |-> r.latestLedger, entries |-> entries.val])
       ELSE entries

RawLedgerEntries ==
    {[lastModifiedLedgerSeq |-> 7] @@ k @@ x @@ l :
        k \in Opt("key", {"", XdrVoid, XdrBad}),
        x \in Opt("xdr", {"", XdrOther, XdrBad}),
        l \in Opt("liveUntilLedgerSeq", {9})}

RawGetLedgerEntriesResponses ==
    {[latestLedger |-> 100] @@ e : e \in Opt("entries", SeqUpTo(RawLedgerEntries, MaxLen))}

---------------------------------------------------------------------------
\* parseRawSimulation, parseSuccessful

\* Api.isSimulationRaw(sim): a response is raw unless it carries the parsed-marker
isSimulationRaw(sim) == ~(Has(sim, "_parsed") /\ sim["_parsed"] = TRUE)

\* new SorobanDataBuilder(s): an empty string builds the default (empty) data
SorobanDataBuilder(s) ==
    IF s \in {"", "TD1", "TD2"} THEN Ok([sorobanData |-> s])
    ELSE Throw(DecodeFailure(s))

\* xdr.ScVal.scvVoid()
scvVoid == Decoded("ScVal", XdrVoid)

\* The callback of sim.results.map
parseResultRow(row) ==
    LET auth == mapFromXDR("SorobanAuthorizationEntry", OrEmptyList(row, "auth"))
        retval == IF Has(row, "xdr") /\ row.xdr # ""
                  THEN fromXDR("ScVal", row.xdr)
                  ELSE Ok(scvVoid)
    IN IF ~auth.ok THEN auth
       ELSE IF ~retval.ok THEN retval
       ELSE Ok([auth |-> auth.val, retval |-> retval.val])

\* Mutant: takes the last row of the list, not the first
successResult_LastRow(sim) ==
    IF Has(sim, "results") /\ Len(sim.results) # 0
    THEN LET rows == MapOrThrow([i \in DOMAIN sim.results |-> parseResultRow(sim.results[i])])
         IN IF rows.ok THEN Ok("result" :> rows.val[Len(rows.val)]) ELSE rows
    ELSE Ok(EmptyObj)

\* The spread of `(sim.results?.length ?? 0 > 0) && { result: sim.results.map(...)[0] }`
successResult(sim) ==
    IF Has(sim, "results") /\ Len(sim.results) # 0
    THEN LET rows == MapOrThrow([i \in DOMAIN sim.results |-> parseResultRow(sim.results[i])])
         IN IF rows.ok THEN Ok("result" :> rows.val[1]) ELSE rows
    ELSE Ok(EmptyObj)

\* entryChange.before ? xdr.LedgerEntry.fromXDR(entryChange.before, 'base64') : null
snapshot(entryChange, f) ==
    IF Has(entryChange, f) /\ entryChange[f] # ""
    THEN fromXDR("LedgerEntry", entryChange[f])
    ELSE Ok(Null)

\* The callback of sim.stateChanges.map
parseStateChange(entryChange) ==
    LET key == fromXDR("LedgerKey", entryChange.key)
        before == snapshot(entryChange, "before")
        after == snapshot(entryChange, "after")
    IN IF ~key.ok THEN key
       ELSE IF ~before.ok THEN before
       ELSE IF ~after.ok THEN after
       ELSE Ok([type |-> entryChange.type, key |-> key.val,
                before |-> before.val, after |-> after.val])

\* Mutant: attaches the list whenever the raw list is present, empty or not
successStateChanges_PresentOnly(sim) ==
    IF Has(sim, "stateChanges")
    THEN LET changes == MapOrThrow([i \in DOMAIN sim.stateChanges |->
                                      parseStateChange(sim.stateChanges[i])])
         IN IF changes.ok THEN Ok("stateChanges" :> changes.val) ELSE changes
    ELSE Ok(EmptyObj)

\* The spread of `(sim.stateChanges?.length ?? 0 > 0) && { stateChanges: ... }`
successStateChanges(sim) ==
    IF Has(sim, "stateChanges") /\ Len(sim.stateChanges) # 0
    THEN LET changes == MapOrThrow([i \in DOMAIN sim.stateChanges |->
                                      parseStateChange(sim.stateChanges[i])])
         IN IF changes.ok THEN Ok("stateChanges" :> changes.val) ELSE changes
    ELSE Ok(EmptyObj)

\* Mutant: without the test for an empty transactionData
hasRestoreHint_PresentOnly(sim) == Has(sim, "restorePreamble")

\* `!sim.restorePreamble || sim.restorePreamble.transactionData === ''` is false
hasRestoreHint(sim) ==
    Has(sim, "restorePreamble") /\ sim.restorePreamble.transactionData # ""

parseSuccessful(sim, partial) ==
    LET data == SorobanDataBuilder(sim.transactionData)
        result == successResult(sim)
        changes == successStateChanges(sim)
        success == Spread(Spread(Spread(partial,
                                        [transactionData |-> data.val,
                                         minResourceFee |-> sim.minResourceFee,
                                         cost |-> sim.cost]),
                                 result.val),
                          changes.val)
        restore == SorobanDataBuilder(sim.restorePreamble.transactionData)
    IN IF ~data.ok THEN data
       ELSE IF ~result.ok THEN result
       ELSE IF ~changes.ok THEN changes
       ELSE IF ~hasRestoreHint(sim) THEN Ok(success)
       ELSE IF ~restore.ok THEN restore
       ELSE Ok(Spread(success,
                      "restorePreamble" :>
                          [minResourceFee |-> sim.restorePreamble.minResourceFee,
                           transactionData |-> restore.val]))

\* Mutant: the base fields without the parsed-marker
simulationBase_NoMarker(sim, events) ==
    [id |-> sim.id, latestLedger |-> sim.latestLedger, events |-> events]

\* `const base = { _parsed: true, id, latestLedger, events }`
simulationBase(sim, events) ==
    ("_parsed" :> TRUE) @@ [id |-> sim.id, latestLedger |-> sim.latestLedger,
                            events |-> events]

parseRawSimulation(sim) ==
    IF ~isSimulationRaw(sim) THEN Ok(sim)
    ELSE LET events == mapFromXDR("DiagnosticEvent", OrEmptyList(sim, "events"))
         IN IF ~events.ok THEN events
            ELSE IF Has(sim, "error")
                 THEN Ok(Spread(simulationBase(sim, events.val), "error" :> sim.error))
                 ELSE parseSuccessful(sim, simulationBase(sim, events.val))

\* The rows of a raw results list
RawResultRows ==
    {[auth |-> <<XdrVoid, XdrOther>>, xdr |-> XdrOther],
     EmptyObj,
     [auth |-> <<>>, xdr |-> ""],
     [auth |-> <<XdrOther>>, xdr |-> XdrBad]}

\* The entries of a raw stateChanges list
RawStateChanges ==
    {[type |-> "created", key |-> XdrVoid, after |-> XdrOther],
     [type |-> "updated", key |-> XdrOther, before |-> XdrVoid, after |-> ""],
     [type |-> "deleted", key |-> XdrBad, before |-> XdrOther]}

RawRestorePreambles ==
    {[transactionData |-> "", minResourceFee |-> "0"],
     [transactionData |-> "TD2", minResourceFee |-> "5"]}

\* The three lists of a raw response: each one ranges over every list of up to
\* MaxLen entries while the other two are absent or hold one valid entry
RawSimulationLists ==
    LET events == Opt("events", SeqUpTo({XdrVoid, XdrOther}, MaxLen))
        results == Opt("results", SeqUpTo(RawResultRows, MaxLen))
        changes == Opt("stateChanges", SeqUpTo(RawStateChanges, MaxLen))
        oneEvent == {EmptyObj, "events" :> <<XdrOther>>}
        oneResult == {EmptyObj, "results" :> <<[auth |-> <<XdrVoid>>, xdr |-> XdrOther]>>}
        oneChange == {EmptyObj, "stateChanges" :>
                         <<[type |-> "created", key |-> XdrVoid, after |-> XdrOther]>>}
    IN {ev @@ res @@ sc : ev \in events, res \in oneResult, sc \in oneChange}
       \cup {ev @@ res @@ sc : ev \in oneEvent, res \in results, sc \in oneChange}
       \cup {ev @@ res @@ sc : ev \in oneEvent, res \in oneResult, sc \in changes}

RawSimulateTransactionResponses ==
    {[id |-> "1", latestLedger |-> 100, transactionData |-> "TD1",
      minResourceFee |-> "100", cost |-> [cpuInsns |-> "1", memBytes |-> "2"]]
       @@ err @@ lists @@ rp :
        err \in Opt("error", {"boom"}),
        lists \in RawSimulationLists,
        rp \in Opt("restorePreamble", RawRestorePreambles)}

---------------------------------------------------------------------------
\* The caller

\* One logged call: the function, the object it was called on (the raw response
\* the caller holds, or a value a parser returned), that object's fields before
\* and after the call, and what the call returned or threw
Call(fn, obj, arg, after, ret) ==
    [fn |-> fn, obj |-> obj, arg |-> arg, after |-> after, ret |-> ret]

Init ==
    /\ calls = <<>>
    /\ \/ kind = "send" /\ raw \in RawSendTransactionResponses
       \/ kind = "txinfo" /\ raw \in RawTransactionInfos
       \/ kind = "events" /\ raw \in RawGetEventsResponses
       \/ kind = "entries" /\ raw \in RawGetLedgerEntriesResponses
       \/ kind = "sim" /\ raw \in RawSimulateTransactionResponses

CallParseRawSendTransaction ==
    /\ kind = "send"
    /\ Len(calls) < MaxCalls
    /\ raw' = sendAfterDelete(raw)
    /\ calls' = Append(calls, Call("parseRawSendTransaction", "raw", raw, raw',
                                   parseRawSendTransaction(raw)))
    /\ UNCHANGED kind

CallParseTransactionInfo ==
    /\ kind = "txinfo"
    /\ Len(calls) < MaxCalls
    /\ calls' = Append(calls, Call("parseTransactionInfo", "raw", raw, raw,
                                   parseTransactionInfo(raw)))
    /\ UNCHANGED <<kind, raw>>

CallParseRawTransactions ==
    /\ kind = "txinfo"
    /\ Len(calls) < MaxCalls
    /\ calls' = Append(calls, Call("parseRawTransactions", "raw", raw, raw,
                                   parseRawTransactions(raw)))
    /\ UNCHANGED <<kind, raw>>

CallParseRawEvents ==
    /\ kind = "events"
    /\ Len(calls) < MaxCalls
    /\ calls' = Append(calls, Call("parseRawEvents", "raw", raw, raw, parseRawEvents(raw)))
    /\ UNCHANGED <<kind, raw>>

CallParseRawLedgerEntries ==
    /\ kind = "entries"
    /\ Len(calls) < MaxCalls
    /\ calls' = Append(calls, Call("parseRawLedgerEntries", "raw", raw, raw,
                                   parseRawLedgerEntries(raw)))
    /\ UNCHANGED <<kind, raw>>

CallParseRawSimulation ==
    /\ kind = "sim"
    /\ Len(calls) < MaxCalls
    /\ calls' = Append(calls, Call("parseRawSimulation", "raw", raw, raw,
                                   parseRawSimulation(raw)))
    /\ UNCHANGED <<kind, raw>>

\* The caller passes a response it got back from parseRawSimulation in again
CallParseRawSimulationOnParsed ==
    /\ kind = "sim"
    /\ Len(calls) \in 1..(MaxCalls - 1)
    /\ calls[Len(calls)].ret.ok
    /\ LET sim == calls[Len(calls)].ret.val
       IN calls' = Append(calls, Call("parseRawSimulation", "parsed", sim, sim,
                                      parseRawSimulation(sim)))
    /\ UNCHANGED <<kind, raw>>

Next ==
    \/ CallParseRawSendTransaction
    \/ CallParseTransactionInfo
    \/ CallParseRawTransactions
    \/ CallParseRawEvents
    \/ CallParseRawLedgerEntries
    \/ CallParseRawSimulation
    \/ CallParseRawSimulationOnParsed

Spec == Init /\ [][Next]_vars

---------------------------------------------------------------------------
\* Properties

\* The logged calls of fn made on the caller's raw response
RawCalls(fn) == {i \in DOMAIN calls : calls[i].fn = fn /\ calls[i].obj = "raw"}

\* Those of them that returned
Returned(fn) == {i \in RawCalls(fn) : calls[i].ret.ok}

\* The expected decoding of a list of payloads, entry by entry
DecodedList(T, list) == [i \in DOMAIN list |-> Decoded(T, list[i])]

NonEmptyField(o, f) == Has(o, f) /\ o[f] # ""

NonEmptyList(o, f) == Has(o, f) /\ o[f] # <<>>

\* C1: parseRawSendTransaction returns the error shape (a decoded errorResult)
\* exactly when the raw response carried a non-empty errorResultXdr; with
\* errorResultXdr absent or "" the call returns the success shape, the remaining
\* raw fields with neither errorResult nor diagnosticEvents, whatever
\* diagnosticEventsXdr held.
C1_ErrorShapeIffErrorResultXdr ==
    \A i \in RawCalls("parseRawSendTransaction") :
        LET r == calls[i].arg
            ret == calls[i].ret
        IN /\ ret.ok =>
                /\ Has(ret.val, "errorResult") <=> NonEmptyField(r, "errorResultXdr")
                /\ Has(ret.val, "errorResult") =>
                       ret.val.errorResult = Decoded("TransactionResult", r.errorResultXdr)
           /\ ~NonEmptyField(r, "errorResultXdr") =>
                /\ ret.ok
                /\ ~Has(ret.val, "errorResult")
                /\ ~Has(ret.val, "diagnosticEvents")
                /\ ret.val = [f \in DOMAIN r \ {"errorResultXdr", "diagnosticEventsXdr"}
                                |-> r[f]]

\* The error shape was returned for a response with a non-empty errorResultXdr
\* and diagnostic events.
C1_Witness ==
    \E i \in Returned("parseRawSendTransaction") :
        /\ NonEmptyField(calls[i].arg, "errorResultXdr")
        /\ NonEmptyList(calls[i].arg, "diagnosticEventsXdr")
        /\ Has(calls[i].ret.val, "errorResult")

\* C2: every parser leaves its argument as it found it, whether it returns or
\* throws, so two calls of one parser on the same raw object return equal results.
C2_ParsersArePure ==
    /\ \A i \in DOMAIN calls : calls[i].after = calls[i].arg
    /\ \A i, j \in DOMAIN calls :
          (calls[i].fn = calls[j].fn /\ calls[i].obj = "raw" /\ calls[j].obj = "raw")
              => calls[i].ret = calls[j].ret

\* C7: for an error-shaped response the output holds neither errorResultXdr nor
\* diagnosticEventsXdr, and holds diagnosticEvents exactly when the raw
\* diagnosticEventsXdr list is non-empty: then one decoded event per raw entry, in
\* order; an empty or absent list gives no field, not an empty list.
C7_ErrorShapeDiagnosticEvents ==
    \A i \in Returned("parseRawSendTransaction") :
        LET r == calls[i].arg
            out == calls[i].ret.val
        IN NonEmptyField(r, "errorResultXdr") =>
              /\ ~Has(out, "errorResultXdr")
              /\ ~Has(out, "diagnosticEventsXdr")
              /\ Has(out, "diagnosticEvents") <=> NonEmptyList(r, "diagnosticEventsXdr")
              /\ Has(out, "diagnosticEvents") =>
                    out.diagnosticEvents =
                        DecodedList("DiagnosticEvent", r.diagnosticEventsXdr)

\* An error-shaped response with an empty diagnosticEventsXdr list was returned.
C7_Witness ==
    \E i \in Returned("parseRawSendTransaction") :
        /\ NonEmptyField(calls[i].arg, "errorResultXdr")
        /\ Has(calls[i].arg, "diagnosticEventsXdr")
        /\ calls[i].arg.diagnosticEventsXdr = <<>>
        /\ ~Has(calls[i].ret.val, "diagnosticEvents")

\* C3: for a raw simulation response the output is exactly one of three
\* variants: Error (the error string and the base fields only) when the raw error
\* is a string; otherwise SuccessWithRestoreHint (restorePreamble present) exactly
\* when the raw restorePreamble is present with a non-empty transactionData;
\* otherwise plain Success, with no restorePreamble.
C3_ExactlyOneVariant ==
    \A i \in Returned("parseRawSimulation") :
        LET sim == calls[i].arg
            out == calls[i].ret.val
        IN /\ Has(sim, "error") =>
                /\ DOMAIN out = {"_parsed", "id", "latestLedger", "events", "error"}
                /\ out.error = sim.error
           /\ ~Has(sim, "error") =>
                /\ ~Has(out, "error")
                /\ {"transactionData", "minResourceFee", "cost"} \subseteq DOMAIN out
                /\ Has(out, "restorePreamble") <=>
                      (Has(sim, "restorePreamble")
                          /\ sim.restorePreamble.transactionData # "")
                /\ Has(out, "restorePreamble") =>
                      out.restorePreamble =
                          [minResourceFee |-> sim.restorePreamble.minResourceFee,
                           transactionData |->
                               [sorobanData |-> sim.restorePreamble.transactionData]]

\* A response whose restorePreamble has an empty transactionData came back as
\* plain Success.
C3_Witness ==
    \E i \in Returned("parseRawSimulation") :
        /\ ~Has(calls[i].arg, "error")
        /\ Has(calls[i].arg, "restorePreamble")
        /\ calls[i].arg.restorePreamble.transactionData = ""
        /\ ~Has(calls[i].ret.val, "restorePreamble")

MissingField(rawEntry) == ~Has(rawEntry, "key") \/ ~Has(rawEntry, "xdr")

\* A raw ledger entry the parser rejects: key or xdr absent or the empty string
Malformed(rawEntry) == ~NonEmptyField(rawEntry, "key") \/ ~NonEmptyField(rawEntry, "xdr")

\* A raw ledger entry with a payload the codec rejects
Undecodable(rawEntry) ==
    \/ NonEmptyField(rawEntry, "key") /\ rawEntry.key \notin ValidXdr
    \/ NonEmptyField(rawEntry, "xdr") /\ rawEntry.xdr \notin ValidXdr

\* What one well-formed raw ledger entry parses to
ParsedEntry(rawEntry) ==
    [f \in {"lastModifiedLedgerSeq", "key", "val"}
          \cup ({"liveUntilLedgerSeq"} \cap DOMAIN rawEntry) |->
        CASE f = "key" -> Decoded("LedgerKey", rawEntry.key)
          [] f = "val" -> Decoded("LedgerEntryData", rawEntry.xdr)
          [] OTHER -> rawEntry[f]]

\* C5 as claimed: if any raw entry lacks its key or xdr field the call fails with
\* the malformed-entry error identifying such an entry and returns no partial list;
\* if every entry has both fields the output has one parsed entry per raw entry,
\* in order, with liveUntilLedgerSeq present exactly when the raw entry has it.
C5_AsClaimed ==
    \A i \in RawCalls("parseRawLedgerEntries") :
        LET entries == OrEmptyList(calls[i].arg, "entries")
            ret == calls[i].ret
        IN /\ (\E k \in DOMAIN entries : MissingField(entries[k])) =>
                 /\ ~ret.ok
                 /\ ret.err.name = "TypeError"
                 /\ \E k \in DOMAIN entries :
                       MissingField(entries[k]) /\ ret.err.entry = entries[k]
           /\ ((\A k \in DOMAIN entries : ~MissingField(entries[k])) /\ ret.ok) =>
                 ret.val.entries = [k \in DOMAIN entries |-> ParsedEntry(entries[k])]

\* C5 amended: entries are handled in list order and the first failure ends the
\* call with no partial list.  An entry whose key or xdr is absent or empty fails
\* with the malformed-entry error identifying it; an entry with an undecodable
\* payload fails with the codec's error.  With no such entry the output has one
\* parsed entry per raw entry, in order, liveUntilLedgerSeq present exactly when
\* the raw entry has it.
C5_FirstFailureWins ==
    \A i \in RawCalls("parseRawLedgerEntries") :
        LET entries == OrEmptyList(calls[i].arg, "entries")
            ret == calls[i].ret
            failing == {k \in DOMAIN entries :
                           Malformed(entries[k]) \/ Undecodable(entries[k])}
        IN /\ failing = {} =>
                 /\ ret.ok
                 /\ ret.val.latestLedger = calls[i].arg.latestLedger
                 /\ ret.val.entries = [k \in DOMAIN entries |-> ParsedEntry(entries[k])]
           /\ failing # {} =>
                 LET k == CHOOSE k \in failing : \A j \in failing : k <= j
                 IN /\ ~ret.ok
                    /\ Malformed(entries[k]) =>
                          ret.err = [name |-> "TypeError", entry |-> entries[k]]
                    /\ ~Malformed(entries[k]) => ret.err.name = "DecodeFailure"

\* A list whose first entry is well-formed and whose second lacks a field was
\* rejected with the malformed-entry error naming the second entry.
C5_Witness ==
    \E i \in RawCalls("parseRawLedgerEntries") :
        LET entries == OrEmptyList(calls[i].arg, "entries")
        IN /\ Len(entries) >= 2
           /\ ~Malformed(entries[1]) /\ ~Undecodable(entries[1])
           /\ MissingField(entries[2])
           /\ calls[i].ret = Throw([name |-> "TypeError", entry |-> entries[2]])

\* An event list every payload and contract id of which the codec accepts
EventsDecodable(events) ==
    \A k \in DOMAIN events :
        /\ events[k].contractId \in ValidContractIds \cup {""}
        /\ events[k].value \in ValidXdr
        /\ \A t \in DOMAIN events[k].topic : events[k].topic[t] \in ValidXdr

\* C6: each output event has contractId exactly when the raw contractId is not
\* "", and then it is the raw string wrapped as a contract identifier; "" is
\* omitted and never handed to the wrapper.  The events keep their number and
\* order, and each topic list keeps its length and order.
C6_ContractIdIffNonEmpty ==
    \A i \in RawCalls("parseRawEvents") :
        LET events == OrEmptyList(calls[i].arg, "events")
            ret == calls[i].ret
        IN /\ EventsDecodable(events) => ret.ok
           /\ ret.ok =>
                /\ DOMAIN ret.val.events = DOMAIN events
                /\ \A k \in DOMAIN events :
                      LET out == ret.val.events[k]
                      IN /\ Has(out, "contractId") <=> events[k].contractId # ""
                         /\ Has(out, "contractId") =>
                               out.contractId = [contract |-> events[k].contractId]
                         /\ out.topic = DecodedList("ScVal", events[k].topic)
                         /\ out.value = Decoded("ScVal", events[k].value)

\* Two events came back, the first without a contractId (raw ""), the second
\* with one.
C6_Witness ==
    \E i \in Returned("parseRawEvents") :
        LET events == OrEmptyList(calls[i].arg, "events")
        IN /\ Len(events) = 2
           /\ events[1].contractId = ""
           /\ Len(events[1].topic) = 2
           /\ events[2].contractId # ""
           /\ ~Has(calls[i].ret.val.events[1], "contractId")
           /\ Has(calls[i].ret.val.events[2], "contractId")

\* The calls on a raw simulation response that took the successful branch and
\* returned
SuccessfulSimulations == {i \in Returned("parseRawSimulation") : ~Has(calls[i].arg, "error")}

\* C8: in the successful branch the output has a result field exactly when the
\* raw results list is present and non-empty; it is one record, never a list,
\* built from the first row: auth is the row's decoded authorization entries in
\* order (empty when the raw auth is absent), retval the decoded xdr when the raw
\* xdr is present and the canonical void value when it is absent or empty.
C8_ResultFromFirstRow ==
    \A i \in SuccessfulSimulations :
        LET sim == calls[i].arg
            out == calls[i].ret.val
        IN /\ Has(out, "result") <=> NonEmptyList(sim, "results")
           /\ Has(out, "result") =>
                 LET row == sim.results[1]
                 IN /\ DOMAIN out.result = {"auth", "retval"}
                    /\ out.result.auth =
                          DecodedList("SorobanAuthorizationEntry", OrEmptyList(row, "auth"))
                    /\ out.result.retval =
                          IF NonEmptyField(row, "xdr") THEN Decoded("ScVal", row.xdr)
                          ELSE Decoded("ScVal", XdrVoid)

\* A results list of two rows, the first without auth and xdr, gave a result with
\* no authorization entries and the void return value.
C8_Witness ==
    \E i \in SuccessfulSimulations :
        /\ Has(calls[i].arg, "results")
        /\ Len(calls[i].arg.results) = 2
        /\ calls[i].arg.results[1] = EmptyObj
        /\ calls[i].arg.results[2] # EmptyObj
        /\ calls[i].ret.val.result = [auth |-> <<>>, retval |-> Decoded("ScVal", XdrVoid)]

\* What one raw state change parses to, its before/after snapshot being decoded
\* when hasBefore/hasAfter says the raw entry carries it
ParsedChange(entryChange, hasBefore, hasAfter) ==
    [type |-> entryChange.type,
     key |-> Decoded("LedgerKey", entryChange.key),
     before |-> IF hasBefore THEN Decoded("LedgerEntry", entryChange.before) ELSE Null,
     after |-> IF hasAfter THEN Decoded("LedgerEntry", entryChange.after) ELSE Null]

\* C9 as claimed: in the successful branch a raw stateChanges list gives an
\* output stateChanges with one entry per raw entry, in order: type copied, key
\* decoded, before/after the decoded snapshot when the raw snapshot is present
\* and null when it is absent; no raw stateChanges gives no field.
C9_AsClaimed ==
    \A i \in SuccessfulSimulations :
        LET sim == calls[i].arg
            out == calls[i].ret.val
        IN /\ Has(out, "stateChanges") <=> Has(sim, "stateChanges")
           /\ Has(out, "stateChanges") =>
                 out.stateChanges =
                     [k \in DOMAIN sim.stateChanges |->
                         ParsedChange(sim.stateChanges[k],
                                      Has(sim.stateChanges[k], "before"),
                                      Has(sim.stateChanges[k], "after"))]

\* C9 amended: the output has stateChanges exactly when the raw list is present
\* and non-empty (an empty list gives no field); then one entry per raw entry,
\* in order: type copied, key decoded, before/after the decoded snapshot when the
\* raw snapshot is a non-empty string and null when it is absent or empty.
C9_StateChangesWhenNonEmpty ==
    \A i \in SuccessfulSimulations :
        LET sim == calls[i].arg
            out == calls[i].ret.val
        IN /\ Has(out, "stateChanges") <=> NonEmptyList(sim, "stateChanges")
           /\ Has(out, "stateChanges") =>
                 out.stateChanges =
                     [k \in DOMAIN sim.stateChanges |->
                         ParsedChange(sim.stateChanges[k],
                                      NonEmptyField(sim.stateChanges[k], "before"),
                                      NonEmptyField(sim.stateChanges[k], "after"))]

\* A list of two state changes came back, one with its before absent and one
\* with an empty after, both null in the output.
C9_Witness ==
    \E i \in SuccessfulSimulations :
        /\ Has(calls[i].arg, "stateChanges")
        /\ Len(calls[i].arg.stateChanges) = 2
        /\ ~Has(calls[i].arg.stateChanges[1], "before")
        /\ Has(calls[i].arg.stateChanges[2], "after")
        /\ calls[i].arg.stateChanges[2].after = ""
        /\ calls[i].ret.val.stateChanges[1].before = Null
        /\ calls[i].ret.val.stateChanges[2].after = Null

\* C10: the output of parseTransactionInfo has returnValue exactly when the
\* decoded result-metadata has variant tag 3 and a non-null invocation-metadata
\* sub-record, and then it is that sub-record's return value; the output has no
\* status field, and parseRawTransactions returns that output plus the raw status.
C10_ReturnValueIffV3Soroban ==
    /\ \A i \in Returned("parseTransactionInfo") :
          LET out == calls[i].ret.val
              meta == Decoded("TransactionMeta", calls[i].arg.resultMetaXdr)
          IN /\ out.resultMetaXdr = meta
             /\ Has(out, "returnValue") <=>
                   (metaSwitch(meta) = 3 /\ v3SorobanMeta(meta) # Null)
             /\ Has(out, "returnValue") =>
                   out.returnValue = v3SorobanMeta(meta).returnValue
             /\ ~Has(out, "status")
    /\ \A i \in RawCalls("parseRawTransactions") :
          LET info == parseTransactionInfo(calls[i].arg)
          IN /\ calls[i].ret.ok <=> info.ok
             /\ calls[i].ret.ok =>
                   /\ calls[i].ret.val.status = calls[i].arg.status
                   /\ Delete(calls[i].ret.val, "status") = info.val

\* Both functions were called on a response whose result-metadata is v3 with
\* invocation metadata: one output has returnValue and no status, the other both.
C10_Witness ==
    /\ Len(calls) = 2
    /\ calls[1].fn = "parseTransactionInfo"
    /\ calls[2].fn = "parseRawTransactions"
    /\ calls[1].ret.ok
    /\ calls[2].ret.ok
    /\ calls[1].arg.resultMetaXdr = "META3S"
    /\ Has(calls[1].ret.val, "returnValue")
    /\ ~Has(calls[1].ret.val, "status")
    /\ Has(calls[2].ret.val, "status")

===========================================================================
